---- MODULE Spec2Model ----
(***************************************************************************)
(* A model of src/pages/index.jsx: the episode page (CSV load effect, row  *)
(* normaliser, filtered / sorted / limited derived views, filter controls) *)
(* and the MultiSelect dropdown with its provisional / committed split.    *)
(*                                                                         *)
(* Conventions.                                                            *)
(*  - JavaScript strings are TLA+ strings; a character is a string of      *)
(*    length 1 (SubSeq(s, i, i)).                                          *)
(*  - A parsed CSV record (one element of Papa.parse(...).data) is a       *)
(*    function from header names to strings; a header that is absent from  *)
(*    the record is `undefined` in JavaScript.                             *)
(*  - A JavaScript number is a record [nan, inf, num, den] standing for    *)
(*    num / den (den a power of ten), NaN or an infinity.                  *)
(*  - Date.getTime() is kept in hours (milliseconds / 3 600 000): the      *)
(*    millisecond value of a present-day date does not fit TLC's integers, *)
(*    and every instant of the model is a whole number of hours.           *)
(*  - A value that may be JavaScript `null` (dateObj, scoreGen, scoreAdv)  *)
(*    is a record with an isNull flag.                                     *)
(*                                                                         *)
(* Specifications, all over the same variables.                            *)
(*  - SpecNorm: normalizeRow applied to one parsed record.                 *)
(*  - SpecLoad: the load effect, over every short CSV of a pool of rows.   *)
(*  - SpecView: the load effect and the filter controls, on the sample     *)
(*    CSV and on a CSV with ties, aliases, undated and early rows.         *)
(*  - SpecCap: the same steps on a CSV longer than the smallest cap.       *)
(*  - SpecWidget: the load effect, the events of the two MultiSelect       *)
(*    instances and the Reset button.                                      *)
(***************************************************************************)
EXTENDS Integers, Sequences, FiniteSets, TLC

----------------------------------------------------------------------------
(* Strings *)

Char(s, i) == SubSeq(s, i, i)

Range(f) == {f[i] : i \in DOMAIN f}

UpperLetters == "ABCDEFGHIJKLMNOPQRSTUVWXYZ"
LowerLetters == "abcdefghijklmnopqrstuvwxyz"
Digits == "0123456789"

\* The position of character c in string s, 0 when absent.
IndexOfChar(s, c) ==
    LET at == {i \in 1..Len(s) : Char(s, i) = c}
    IN  IF at = {} THEN 0 ELSE CHOOSE i \in at : \A j \in at : i <= j

\* The characters of a string, and for each the position it first has
CharsOf(s) == {Char(s, i) : i \in 1..Len(s)}
PositionIn(s) == [c \in CharsOf(s) |-> IndexOfChar(s, c)]

IsDigit(c) == IndexOfChar(Digits, c) # 0
DigitVal(c) == IndexOfChar(Digits, c) - 1

\* White space removed by String.prototype.trim (the model's texts hold
\* spaces and tabs only).
IsSpace(c) == c \in {" ", "\t"}

\* String.prototype.trim
trim(s) ==
    LET n == Len(s)
        keep == {i \in 1..n : ~IsSpace(Char(s, i))}
    IN  IF keep = {} THEN ""
        ELSE LET first == CHOOSE i \in keep : \A j \in keep : i <= j
                 last == CHOOSE i \in keep : \A j \in keep : j <= i
             IN  SubSeq(s, first, last)

UpperPosition == PositionIn(UpperLetters)

LowerChar(c) ==
    IF c \in DOMAIN UpperPosition THEN Char(LowerLetters, UpperPosition[c]) ELSE c

\* String.prototype.toLowerCase (character by character, by halves; a
\* stretch with no upper-case letter is its own lower case)
RECURSIVE toLowerCase(_)
toLowerCase(s) ==
    IF \A i \in 1..Len(s) : Char(s, i) \notin DOMAIN UpperPosition THEN s
    ELSE IF Len(s) = 1 THEN LowerChar(s)
    ELSE LET h == Len(s) \div 2
         IN  toLowerCase(SubSeq(s, 1, h)) \o toLowerCase(SubSeq(s, h + 1, Len(s)))

\* String.prototype.includes
includes(s, q) ==
    \E i \in 1..(Len(s) - Len(q) + 1) : SubSeq(s, i, i + Len(q) - 1) = q

\* Array.prototype.join(",")
RECURSIVE join(_)
join(a) ==
    IF Len(a) = 0 THEN ""
    ELSE IF Len(a) = 1 THEN a[1]
    ELSE LET h == Len(a) \div 2
         IN  join(SubSeq(a, 1, h)) \o "," \o join(SubSeq(a, h + 1, Len(a)))

\* String.prototype.split(/[,;]+/): the pieces between maximal runs of
\* commas and semicolons (a leading or trailing run leaves an empty piece).
IsTagSep(c) == c \in {",", ";"}

splitTags(s) ==
    LET n == Len(s)
        sep(i) == IsTagSep(Char(s, i))
        \* where a piece that holds a character starts, and where it ends
        starts == {i \in 1..n : ~sep(i) /\ (i = 1 \/ sep(i - 1))}
        endOf(i) == CHOOSE j \in i..n :
                        /\ \A k \in i..j : ~sep(k)
                        /\ (j = n \/ sep(j + 1))
        nth(k) == CHOOSE i \in starts : Cardinality({j \in starts : j < i}) = k - 1
        pieces == [k \in 1..Cardinality(starts) |-> SubSeq(s, nth(k), endOf(nth(k)))]
        leading == IF n = 0 \/ sep(1) THEN <<"">> ELSE <<>>
        trailing == IF n > 0 /\ sep(n) THEN <<"">> ELSE <<>>
    IN  leading \o pieces \o trailing

\* tagsStr.split(/[,;]+/).map((t) => t.trim()).filter(Boolean)
MapTrim(a) == [i \in 1..Len(a) |-> trim(a[i])]
IsNonEmpty(t) == t # ""
parseTags(s) == SelectSeq(MapTrim(splitTags(s)), IsNonEmpty)

\* The collation order behind String.prototype.localeCompare on the
\* model's alphabet: white space, then punctuation, then digits, then
\* letters; letters compare without case first and lower case before upper
\* case at the last level.
CollationOrder == " \t-.,;:'/?!0123456789abcdefghijklmnopqrstuvwxyz"

CollationPosition == PositionIn(CollationOrder)

Primary(c) ==
    LET l == LowerChar(c)
    IN  IF l \in DOMAIN CollationPosition THEN CollationPosition[l] ELSE 0

Min(a, b) == IF a <= b THEN a ELSE b

\* The first level: the characters without their case, a proper prefix first.
ComparePrimary(a, b) ==
    LET m == Min(Len(a), Len(b))
        diff == {i \in 1..m : Primary(Char(a, i)) # Primary(Char(b, i))}
    IN  IF diff = {}
        THEN (IF Len(a) < Len(b) THEN -1 ELSE IF Len(a) > Len(b) THEN 1 ELSE 0)
        ELSE LET i == CHOOSE k \in diff : \A j \in diff : k <= j
             IN  IF Primary(Char(a, i)) < Primary(Char(b, i)) THEN -1 ELSE 1

IsUpper(c) == c \in DOMAIN UpperPosition

\* The last level, for strings equal without case: lower case first.
CompareCase(a, b) ==
    LET diff == {i \in 1..Len(a) : IsUpper(Char(a, i)) # IsUpper(Char(b, i))}
    IN  IF diff = {} THEN 0
        ELSE LET i == CHOOSE k \in diff : \A j \in diff : k <= j
             IN  IF IsUpper(Char(b, i)) THEN -1 ELSE 1

\* a.localeCompare(b): negative, zero or positive
localeCompare(a, b) ==
    LET p == ComparePrimary(a, b)
    IN  IF p # 0 THEN p ELSE CompareCase(a, b)

----------------------------------------------------------------------------
(* Numbers *)

NaN == [nan |-> TRUE, inf |-> FALSE, num |-> 0, den |-> 1]
Infinite == [nan |-> FALSE, inf |-> TRUE, num |-> 0, den |-> 1]
Num(n, d) == [nan |-> FALSE, inf |-> FALSE, num |-> n, den |-> d]

RECURSIVE Pow10(_)
Pow10(k) == IF k = 0 THEN 1 ELSE 10 * Pow10(k - 1)

\* The value of a string of decimal digits.
RECURSIVE DigitsValue(_)
DigitsValue(s) ==
    IF Len(s) = 0 THEN 0
    ELSE 10 * DigitsValue(SubSeq(s, 1, Len(s) - 1)) + DigitVal(Char(s, Len(s)))

AllDigits(s) == \A i \in 1..Len(s) : IsDigit(Char(s, i))

\* An unsigned decimal literal: digits, digits "." digits?, or "." digits.
UnsignedDecimal(s) ==
    LET dot == IndexOfChar(s, ".")
        int == IF dot = 0 THEN s ELSE SubSeq(s, 1, dot - 1)
        frac == IF dot = 0 THEN "" ELSE SubSeq(s, dot + 1, Len(s))
    IN  IF AllDigits(int) /\ AllDigits(frac) /\ Len(int) + Len(frac) > 0
        THEN Num(DigitsValue(int \o frac), Pow10(Len(frac)))
        ELSE NaN

\* Number(text) for a string: the StringToNumber conversion on decimal
\* literals and "Infinity" (no exponent, hexadecimal, octal or binary
\* literal occurs in the model's texts).
StringToNumber(text) ==
    LET s == trim(text)
        signed == Len(s) > 0 /\ Char(s, 1) \in {"+", "-"}
        body == IF signed THEN SubSeq(s, 2, Len(s)) ELSE s
        u == UnsignedDecimal(body)
    IN  IF s = "" THEN Num(0, 1)
        ELSE IF body = "Infinity" THEN Infinite
        ELSE IF u.nan THEN NaN
        ELSE IF signed /\ Char(s, 1) = "-" THEN Num(0 - u.num, u.den)
        ELSE u

\* Math.round: the nearest integer, a tie going up.
MathRound(x) == (2 * x.num + x.den) \div (2 * x.den)

isFinite(x) == ~x.nan /\ ~x.inf

----------------------------------------------------------------------------
(* Dates *)

IsLeap(y) == (y % 4 = 0 /\ y % 100 # 0) \/ y % 400 = 0

DaysInMonth(y, m) ==
    IF m = 2 THEN (IF IsLeap(y) THEN 29 ELSE 28)
    ELSE IF m \in {4, 6, 9, 11} THEN 30 ELSE 31

\* Days from 1970-01-01 to the civil date y-m-d (negative before 1970).
DaysFromCivil(y, m, d) ==
    LET yy == IF m <= 2 THEN y - 1 ELSE y
        era == yy \div 400
        yoe == yy - era * 400
        mp == (m + 9) % 12
        doy == (153 * mp + 2) \div 5 + d - 1
        doe == yoe * 365 + yoe \div 4 - yoe \div 100 + doy
    IN  era * 146097 + doe - 719468

\* The shape YYYY-MM-DD
IsIsoDateShape(v) ==
    /\ Len(v) = 10
    /\ Char(v, 5) = "-" /\ Char(v, 8) = "-"
    /\ \A i \in {1, 2, 3, 4, 6, 7, 9, 10} : IsDigit(Char(v, i))

\* parseDateSafe: new Date(v), null when the time value is NaN.  Modelled
\* on date-only ISO strings (UTC midnight) and on texts no Date.parse
\* recognises; a date-only string with an illegal month or day is NaN.
\* The result is [isNull, time], time in hours since the epoch.
NullDate == [isNull |-> TRUE, time |-> 0]

parseDateSafe(v) ==
    IF ~IsIsoDateShape(v) THEN NullDate
    ELSE LET y == DigitsValue(SubSeq(v, 1, 4))
             m == DigitsValue(SubSeq(v, 6, 7))
             d == DigitsValue(SubSeq(v, 9, 10))
         IN  IF m \in 1..12 /\ d \in 1..DaysInMonth(y, m)
             THEN [isNull |-> FALSE, time |-> 24 * DaysFromCivil(y, m, d)]
             ELSE NullDate

----------------------------------------------------------------------------
(* Parsed CSV records and the row normaliser *)

\* r.k1 || r.k2 || ... || "": the first value that is present and not the
\* empty string.
RECURSIVE FirstTruthy(_, _)
FirstTruthy(r, keys) ==
    IF Len(keys) = 0 THEN ""
    ELSE IF Head(keys) \in DOMAIN r /\ r[Head(keys)] # "" THEN r[Head(keys)]
    ELSE FirstTruthy(r, Tail(keys))

\* Number(r.k1 ?? r.k2 ?? ...): the first value that is present, the empty
\* string included; Number(undefined) is NaN.
RECURSIVE NumberOfFirstDefined(_, _)
NumberOfFirstDefined(r, keys) ==
    IF Len(keys) = 0 THEN NaN
    ELSE IF Head(keys) \in DOMAIN r THEN StringToNumber(r[Head(keys)])
    ELSE NumberOfFirstDefined(r, Tail(keys))

NullScore == [isNull |-> TRUE, value |-> 0]

\* isFinite(s) && s >= 1 && s <= 5 ? Math.round(s) : null, without the
\* range test
ScoreUnchecked(s) ==
    IF isFinite(s) THEN [isNull |-> FALSE, value |-> MathRound(s)] ELSE NullScore

\* isFinite(s) && s >= 1 && s <= 5 ? Math.round(s) : null
Score(s) ==
    IF isFinite(s) /\ s.num >= s.den /\ s.num <= 5 * s.den
    THEN [isNull |-> FALSE, value |-> MathRound(s)]
    ELSE NullScore

normalizeRow(r) ==
    LET series == trim(FirstTruthy(r, <<"series_name", "Series", "series">>))
        title == trim(FirstTruthy(r, <<"episode_title", "title">>))
        dateRaw == trim(FirstTruthy(r, <<"pub_date_iso", "date", "published">>))
        dateObj == parseDateSafe(dateRaw)
        tagsStr == FirstTruthy(r, <<"tags", "Tags">>)
        tags == parseTags(tagsStr)
        sg == NumberOfFirstDefined(r, <<"score_general", "general", "general_score">>)
        sa == NumberOfFirstDefined(r, <<"score_advanced", "advanced", "advanced_score">>)
        summaryGeneral == trim(FirstTruthy(r, <<"summary_general", "summaryGeneral">>))
        summaryAdvanced == trim(FirstTruthy(r, <<"summary_advanced", "summaryAdvanced">>))
        summary == trim(IF summaryGeneral # "" THEN summaryGeneral
                        ELSE FirstTruthy(r, <<"summary", "Summary", "description">>))
        url == trim(FirstTruthy(r, <<"url", "link", "href", "episode_url">>))
    IN  [series |-> series, title |-> title, dateRaw |-> dateRaw, dateObj |-> dateObj,
         tags |-> tags, scoreGen |-> Score(sg), scoreAdv |-> Score(sa),
         summary |-> summary, summaryGeneral |-> summaryGeneral,
         summaryAdvanced |-> summaryAdvanced, url |-> url]

----------------------------------------------------------------------------
(* Data: what Papa.parse(text, {header: true, skipEmptyLines: true}).data  *)
(* holds for a CSV text                                                    *)

\* SAMPLE_DATA, parsed
SampleData ==
    << [series_name |-> "Cleaning Up", episode_title |-> "Nuclear's Next Wave",
        pub_date_iso |-> "2025-07-26", tags |-> "nuclear; policy",
        score_general |-> "4", score_advanced |-> "5",
        summary |-> "A conversation about advanced nuclear and timelines.",
        url |-> "https://example.com/ep1"],
       [series_name |-> "Climate One", episode_title |-> "Insurance in the Hot Zone",
        pub_date_iso |-> "2025-08-10", tags |-> "insurance, risk",
        score_general |-> "5", score_advanced |-> "4",
        summary |-> "Why insurers are retreating; what it means for homeowners.",
        url |-> "https://example.com/ep2"],
       [series_name |-> "Volts", episode_title |-> "Grid nerd out: HVDC",
        pub_date_iso |-> "2025-08-20", tags |-> "grid, hvdc, transmission",
        score_general |-> "5", score_advanced |-> "5",
        summary |-> "A deep dive on HVDC for a renewables-heavy grid.",
        url |-> "https://example.com/ep3"],
       [series_name |-> "Drilled", episode_title |-> "Litigation Update: 2025",
        pub_date_iso |-> "2025-08-05", tags |-> "litigation; attribution",
        score_general |-> "3", score_advanced |-> "5",
        summary |-> "Roundup of major climate lawsuits and what to watch.",
        url |-> "https://example.com/ep4"] >>

\* The longest CSV body the load specification draws, in records.
MaxCsvRows == 2

\* Records a CSV of episodes may hold: the canonical headers and their
\* aliases, an undated row, a row dated before 1970, rows with no
\* identifying field, a row identified by its link alone.
RecVolts ==
    [series_name |-> "Volts", episode_title |-> "Grid basics",
     pub_date_iso |-> "2025-08-20", tags |-> "grid, solar",
     score_general |-> "4.6", score_advanced |-> "6",
     summary |-> "Why the grid matters.", url |-> "https://example.com/a"]

RecUndated ==
    [Series |-> " Drilled ", title |-> "Cold case", date |-> "n/a",
     Tags |-> "law;; grid", general |-> "abc", advanced |-> "0",
     description |-> "An undated story.", link |-> "https://example.com/b"]

RecArchive ==
    [series |-> "Archive", episode_title |-> "Moon landing",
     published |-> "1969-07-20", tags |-> "law",
     summary_general |-> "Before the epoch.", summary_advanced |-> "Apollo.",
     href |-> "https://example.com/c"]

RecGhostDated ==
    [series_name |-> "  ", episode_title |-> "", pub_date_iso |-> "2025-08-01",
     tags |-> "grid", score_general |-> "3", summary |-> "No identity.",
     url |-> " "]

RecGhostEmpty ==
    [series_name |-> "", episode_title |-> "", pub_date_iso |-> "", tags |-> "",
     score_general |-> "", score_advanced |-> "", summary |-> "", url |-> ""]

RecLinkOnly ==
    [series_name |-> "", Series |-> "", episode_title |-> "", tags |-> "solar",
     episode_url |-> " https://example.com/d "]

\* The same date, series and title as RecVolts, another link
RecVoltsTwin ==
    [series_name |-> "Volts", episode_title |-> "Grid basics",
     pub_date_iso |-> "2025-08-20", tags |-> "solar",
     summary |-> "A rerun.", url |-> "https://example.com/a2"]

\* The same date and series as RecVolts, another title
RecVoltsAlpha ==
    [series_name |-> "Volts", episode_title |-> "alpha lines",
     pub_date_iso |-> "2025-08-20", tags |-> "GRID",
     summary |-> "Transmission.", url |-> "https://example.com/e"]

\* The same date as RecVolts, another series; 30 days before 2025-09-04
RecDrilled ==
    [series_name |-> "Drilled", episode_title |-> "Zeta",
     pub_date_iso |-> "2025-08-05", tags |-> "law, grid",
     summary |-> "Insurance and the law.", url |-> ""]

RecArchiveRecent ==
    [series_name |-> "Archive", episode_title |-> "Grid basics",
     pub_date_iso |-> "2025-08-20", tags |-> "",
     summary |-> "", url |-> ""]

RecordPool ==
    {RecVolts, RecUndated, RecArchive, RecGhostDated, RecGhostEmpty, RecLinkOnly}

\* A CSV with ties on every sort key, an undated row, a row dated before
\* 1970 and a row with no identifying field
MixedData ==
    <<RecVolts, RecUndated, RecArchive, RecGhostDated, RecVoltsTwin,
      RecVoltsAlpha, RecDrilled, RecArchiveRecent>>

\* The decimal numeral of a natural number
RECURSIVE NumStr(_)
NumStr(n) ==
    IF n < 10 THEN Char(Digits, n + 1)
    ELSE NumStr(n \div 10) \o Char(Digits, (n % 10) + 1)

TwoDigits(n) == IF n < 10 THEN "0" \o NumStr(n) ELSE NumStr(n)

\* By how many rows the long CSV exceeds the smallest max-results cap
Excess == 1

\* A CSV longer than the smallest max-results cap (100): one series, dates
\* over 2025, several rows a day
LongRecord(i) ==
    [series_name |-> "Daily", episode_title |-> "Episode " \o NumStr(i),
     pub_date_iso |-> "2025-" \o TwoDigits(1 + (i % 9)) \o "-" \o TwoDigits(1 + ((7 * i) % 28)),
     tags |-> "news", summary |-> "", url |-> ""]

LongData == [i \in 1..(100 + Excess) |-> LongRecord(i)]

RECURSIVE SeqsUpTo(_, _)
SeqsUpTo(S, n) ==
    IF n = 0 THEN {<<>>}
    ELSE LET shorter == SeqsUpTo(S, n - 1)
         IN  shorter \cup {Append(q, x) : q \in shorter, x \in S}

\* What the fetch of /episodes.csv can deliver: a response with status 2xx
\* and a body, a response with another status, or no response at all.
OkResponse(data) == [kind |-> "ok", data |-> data]
HttpError == [kind |-> "http_error", data |-> <<>>]
NetworkError == [kind |-> "network_error", data |-> <<>>]

LoadResponses ==
    {OkResponse(d) : d \in SeqsUpTo(RecordPool, MaxCsvRows) \cup {SampleData}}
        \cup {HttpError, NetworkError}

----------------------------------------------------------------------------
(* State *)

VARIABLES
    \* PodcastEpisodesInfographic: useState
    rows, loading, error,
    selectedSeries, selectedTags, last30Only, maxResults, search,
    \* useMemo(..., [rows]): the options of the two MultiSelects
    allSeries, allTags,
    \* useMemo(..., []): now minus 30 days, in hours since the epoch
    cutoff,
    \* the load effect: where load() stands, the cancelled flag of its
    \* closure, and what the network holds for its fetch
    pc, cancelled, response,
    \* MultiSelect, one instance per widget: useState
    open, query, tempSelected,
    \* the normaliser applied to one record: the record and the result
    input, output,
    \* history, for each widget: whether its menu was opened and only
    \* toggled and filtered since ("editing"), or was so and then dismissed
    \* ("dismissed"); the committed selection when it was opened; the
    \* options toggled an odd number of times since; and, from a Clear to
    \* the next Apply or Done, whether a selection was committed before it
    phase, seed, flips, cleared

pageVars == <<rows, loading, error, selectedSeries, selectedTags, last30Only,
              maxResults, search, allSeries, allTags, cutoff>>
loadVars == <<pc, cancelled, response>>
widgetVars == <<open, query, tempSelected>>
normVars == <<input, output>>
historyVars == <<phase, seed, flips, cleared>>
vars == <<pageVars, loadVars, widgetVars, normVars, historyVars>>

Widgets == {"series", "tags"}

NotCleared == "no"

\* The page is mounted and its load has delivered: the controls and the
\* two MultiSelect instances are rendered.
Rendered == ~cancelled /\ ~loading

----------------------------------------------------------------------------
(* Option lists *)

\* The array whose element of rank k is at index k
Placed(a, rank) == [k \in 1..Len(a) |-> a[CHOOSE i \in 1..Len(a) : rank[i] = k]]

\* a.sort((a, b) => a.localeCompare(b)), stable
sortStrings(a) ==
    LET n == Len(a)
        ranks == {[i \in 1..n |->
                    Cardinality({j \in 1..n :
                        LET c == localeCompare(a[j], a[i])
                        IN  c < 0 \/ (c = 0 /\ j < i)}) + 1]}
    IN  CHOOSE s \in {Placed(a, rank) : rank \in ranks} : TRUE

\* Array.from(new Set(a)): the first occurrence of each element, in order
dedupe(a) ==
    LET firsts == {i \in 1..Len(a) : \A j \in 1..(i - 1) : a[j] # a[i]}
        nth(k) == CHOOSE i \in firsts : Cardinality({j \in firsts : j < i}) = k - 1
    IN  [k \in 1..Cardinality(firsts) |-> a[nth(k)]]

\* uniqueSorted: Array.from(new Set(arr.filter(Boolean))).sort(localeCompare)
uniqueSorted(arr) == sortStrings(dedupe(SelectSeq(arr, IsNonEmpty)))

\* a.flatMap((x) => x) for an array of arrays
RECURSIVE flat(_)
flat(a) ==
    IF Len(a) = 0 THEN <<>>
    ELSE IF Len(a) = 1 THEN a[1]
    ELSE LET h == Len(a) \div 2
         IN  flat(SubSeq(a, 1, h)) \o flat(SubSeq(a, h + 1, Len(a)))

\* rows.map((r) => r.series)
seriesOf(rs) == [i \in 1..Len(rs) |-> rs[i].series]

\* rows.flatMap((r) => r.tags)
tagsOf(rs) == flat([i \in 1..Len(rs) |-> rs[i].tags])

----------------------------------------------------------------------------
(* The load effect *)

\* (parsed.data || []).map((r) => normalizeRow(r))
MapNormalize(data) == [i \in 1..Len(data) |-> normalizeRow(data[i])]

\* (r.series && r.series.length) || (r.title && r.title.length), the link
\* left out
IsIdentifiedNoUrl(r) == Len(r.series) > 0 \/ Len(r.title) > 0

\* (r.series && r.series.length) || (r.title && r.title.length) ||
\* (r.url && r.url.length)
IsIdentified(r) == Len(r.series) > 0 \/ Len(r.title) > 0 \/ Len(r.url) > 0

normalized(data) == SelectSeq(MapNormalize(data), IsIdentified)

\* Mount: the state after the first render, load() suspended at its fetch.
InitRest(responses, nows) ==
    /\ rows = <<>> /\ loading = TRUE /\ error = ""
    /\ selectedSeries = <<>> /\ selectedTags = <<>>
    /\ last30Only = FALSE /\ maxResults = 200 /\ search = ""
    /\ allSeries = <<>> /\ allTags = <<>>
    /\ \E now \in nows : cutoff = now - 30 * 24
    /\ pc = "fetch" /\ cancelled = FALSE
    /\ response \in responses
    /\ open = [w \in Widgets |-> FALSE]
    /\ query = [w \in Widgets |-> ""]
    /\ tempSelected = [w \in Widgets |-> <<>>]
    /\ phase = [w \in Widgets |-> "none"]
    /\ seed = [w \in Widgets |-> <<>>]
    /\ flips = [w \in Widgets |-> {}]
    /\ cleared = [w \in Widgets |-> NotCleared]

InitPage(responses, nows) ==
    /\ InitRest(responses, nows)
    /\ input = <<>> /\ output = <<>>

Untouched == UNCHANGED <<widgetVars, normVars, historyVars>>

\* The catch block: its first statement reads `text`, which is declared by
\* the const inside the try block and by nothing that encloses the catch
\* block, so the read throws a ReferenceError; load() ends rejected and
\* none of setRows, setLoading, setError runs.
CatchBlock ==
    /\ pc' = "rejected"
    /\ UNCHANGED <<pageVars, cancelled, response>>

\* await fetch(...) settles with a 2xx response: load() goes on to
\* await res.text().
FetchFulfilledOk ==
    /\ pc = "fetch" /\ response.kind = "ok"
    /\ pc' = "text"
    /\ UNCHANGED <<pageVars, cancelled, response>>
    /\ Untouched

\* await fetch(...) settles with another status: !res.ok throws.
FetchFulfilledNotOk ==
    /\ pc = "fetch" /\ response.kind = "http_error"
    /\ CatchBlock
    /\ Untouched

\* await fetch(...) rejects.
FetchRejected ==
    /\ pc = "fetch" /\ response.kind = "network_error"
    /\ CatchBlock
    /\ Untouched

\* The success path after await res.text(), the cancelled flag not read:
\* setRows and setLoading run whatever it holds.
TextFulfilledUnguarded ==
    /\ pc = "text"
    /\ pc' = "loaded"
    /\ rows' = normalized(response.data)
    /\ loading' = FALSE
    /\ allSeries' = uniqueSorted(seriesOf(rows'))
    /\ allTags' = uniqueSorted(tagsOf(rows'))
    /\ UNCHANGED <<error, selectedSeries, selectedTags, last30Only, maxResults,
                   search, cutoff, cancelled, response>>
    /\ Untouched

\* await res.text() settles: parse, normalise, drop the rows with no
\* identifying field, and, unless cancelled, setRows and setLoading(false).
TextFulfilled ==
    /\ pc = "text"
    /\ pc' = "loaded"
    /\ IF ~cancelled
       THEN /\ rows' = normalized(response.data)
            /\ loading' = FALSE
            /\ allSeries' = uniqueSorted(seriesOf(rows'))
            /\ allTags' = uniqueSorted(tagsOf(rows'))
       ELSE UNCHANGED <<rows, loading, allSeries, allTags>>
    /\ UNCHANGED <<error, selectedSeries, selectedTags, last30Only, maxResults,
                   search, cutoff, cancelled, response>>
    /\ Untouched

\* await res.text() rejects (the connection drops while the body is read).
TextRejected ==
    /\ pc = "text"
    /\ CatchBlock
    /\ Untouched

\* The effect's cleanup, run when the page unmounts.
Unmount ==
    /\ ~cancelled
    /\ cancelled' = TRUE
    /\ UNCHANGED <<pageVars, pc, response>>
    /\ Untouched

LoadNext ==
    \/ FetchFulfilledOk
    \/ FetchFulfilledNotOk
    \/ FetchRejected
    \/ TextFulfilled
    \/ TextRejected
    \/ Unmount

\* The instants at which the page may be loaded, in hours since the epoch:
\* 2025-09-04 at 00:00 UTC and at 12:00 UTC.
LoadInstants == {24 * 20335, 24 * 20335 + 12}

InitLoad == InitPage(LoadResponses, {24 * 20335})

SpecLoad == InitLoad /\ [][LoadNext]_vars

----------------------------------------------------------------------------
(* Derived views *)

\* The sort comparator of `filtered`
compareRows(a, b) ==
    LET at == IF a.dateObj.isNull THEN 0 ELSE a.dateObj.time
        bt == IF b.dateObj.isNull THEN 0 ELSE b.dateObj.time
    IN  IF bt # at THEN bt - at
        ELSE LET c == localeCompare(a.series, b.series)
             IN  IF c # 0 THEN c ELSE localeCompare(a.title, b.title)

\* How many elements of the sorted array b go before x: those that compare
\* before it and, with orEqual, those that compare equal to it.  A binary
\* search between lo (known to go before) and hi (nothing beyond goes before).
RECURSIVE CountBefore(_, _, _, _, _)
CountBefore(b, x, orEqual, lo, hi) ==
    IF lo >= hi THEN lo
    ELSE LET mid == (lo + hi + 1) \div 2
             c == compareRows(b[mid], x)
         IN  IF c < 0 \/ (orEqual /\ c = 0)
             THEN CountBefore(b, x, orEqual, mid, hi)
             ELSE CountBefore(b, x, orEqual, lo, mid - 1)

\* How many entries of the increasing array pos are at most k
RECURSIVE CountUpTo(_, _, _, _)
CountUpTo(pos, k, lo, hi) ==
    IF lo >= hi THEN lo
    ELSE LET mid == (lo + hi + 1) \div 2
         IN  IF pos[mid] <= k THEN CountUpTo(pos, k, mid, hi)
             ELSE CountUpTo(pos, k, lo, mid - 1)

\* The merge of two sorted arrays, given the index each element of a gets:
\* the elements of b fill the other indexes in their order.
MergeAt(a, b, pos) ==
    [k \in 1..(Len(a) + Len(b)) |->
        LET i == CountUpTo(pos, k, 0, Len(a))
        IN  IF i > 0 /\ pos[i] = k THEN a[i] ELSE b[k - i]]

\* The stable merge of two sorted arrays, a the earlier one: an element of
\* a goes after the elements of b that compare before it.
mergeRows(a, b) ==
    CHOOSE m \in {MergeAt(a, b, pos) :
                    pos \in {[i \in 1..Len(a) |->
                                i + CountBefore(b, a[i], FALSE, 0, Len(b))]}} : TRUE

\* [...out].sort(compare): Array.prototype.sort is stable; elements that
\* compare equal keep the order they have in `out`.
RECURSIVE sortRows(_)
sortRows(out) ==
    IF Len(out) <= 1 THEN out
    ELSE LET h == Len(out) \div 2
         IN  CHOOSE m \in {mergeRows(a, b) :
                             a \in {sortRows(SubSeq(out, 1, h))},
                             b \in {sortRows(SubSeq(out, h + 1, Len(out)))}} : TRUE

\* if (selectedSeries.length) out = out.filter(...)
filterSeries(out) ==
    IF Len(selectedSeries) # 0
    THEN SelectSeq(out, LAMBDA r : r.series \in Range(selectedSeries))
    ELSE out

\* if (selectedTags.length) out = out.filter((r) => r.tags.every(...))
filterTagsEvery(out) ==
    IF Len(selectedTags) # 0
    THEN SelectSeq(out, LAMBDA r : \A i \in 1..Len(r.tags) : r.tags[i] \in Range(selectedTags))
    ELSE out

\* if (selectedTags.length) out = out.filter((r) => r.tags.some(...))
filterTags(out) ==
    IF Len(selectedTags) # 0
    THEN SelectSeq(out, LAMBDA r : \E i \in 1..Len(r.tags) : r.tags[i] \in Range(selectedTags))
    ELSE out

\* if (last30Only) out = out.filter((r) => r.dateObj && r.dateObj >= cutoff)
filterRecent(out) ==
    IF last30Only
    THEN SelectSeq(out, LAMBDA r : ~r.dateObj.isNull /\ r.dateObj.time >= cutoff)
    ELSE out

\* if (search.trim()) { q = search.trim().toLowerCase(); out = out.filter(...) }
filterSearch(out) ==
    IF trim(search) # ""
    THEN CHOOSE m \in
            {SelectSeq(out, LAMBDA r :
                 \/ includes(toLowerCase(r.title), q)
                 \/ includes(toLowerCase(r.series), q)
                 \/ includes(toLowerCase(join(r.tags)), q)
                 \/ includes(toLowerCase(r.summary), q))
             : q \in {toLowerCase(trim(search))}} : TRUE
    ELSE out

\* `out` after the four filters
filterChain == filterSearch(filterRecent(filterTags(filterSeries(rows))))

filtered == sortRows(filterChain)

Max(a, b) == IF a >= b THEN a ELSE b

\* a.slice(0, n): up to index n, counted from the end when n is negative
slice0(a, n) ==
    SubSeq(a, 1, IF n < 0 THEN Max(Len(a) + n, 0) ELSE Min(n, Len(a)))

\* limited, without the test for All: filtered.slice(0, -1)
limitedNoAllTest == IF maxResults = 0 THEN filtered ELSE slice0(filtered, maxResults)

limited ==
    IF maxResults = 0 \/ maxResults = -1 THEN filtered ELSE slice0(filtered, maxResults)

----------------------------------------------------------------------------
(* The filter controls *)

\* The values of the max-results <select>: 100, 200, 500 and All
MaxResultsOptions == {100, 200, 500, -1}

\* The texts typed into the search box
SearchTexts == {"", "   ", "Insurance", " grid "}

\* How many options of a MultiSelect, from the top of its list, the page's
\* user ticks
MaxTicked == 2

\* The subsequences of a sequence
RECURSIVE SubSeqs(_)
SubSeqs(a) ==
    IF Len(a) = 0 THEN {<<>>}
    ELSE SubSeqs(Tail(a)) \cup {<<Head(a)>> \o t : t \in SubSeqs(Tail(a))}

\* The arrays a MultiSelect hands to onChange: options ticked, without
\* repetition.  Taken in list order: the page reads a selection through
\* .length and .includes alone.
Selections(options) == SubSeqs(SubSeq(options, 1, Min(MaxTicked, Len(options))))

ControlsUntouched ==
    UNCHANGED <<rows, loading, error, allSeries, allTags, cutoff, loadVars,
                widgetVars, normVars, historyVars>>

\* onChange={setSelectedSeries}, as called by the series MultiSelect
SetSelectedSeries(v) ==
    /\ Rendered
    /\ selectedSeries' = v
    /\ UNCHANGED <<selectedTags, last30Only, maxResults, search>>
    /\ ControlsUntouched

\* onChange={setSelectedTags}, as called by the tags MultiSelect
SetSelectedTags(v) ==
    /\ Rendered
    /\ selectedTags' = v
    /\ UNCHANGED <<selectedSeries, last30Only, maxResults, search>>
    /\ ControlsUntouched

\* onChange={(e) => setSearch(e.target.value)}
SetSearch(v) ==
    /\ Rendered
    /\ search' = v
    /\ UNCHANGED <<selectedSeries, selectedTags, last30Only, maxResults>>
    /\ ControlsUntouched

\* onChange={(e) => setLast30Only(e.target.checked)}
SetLast30Only ==
    /\ Rendered
    /\ last30Only' = ~last30Only
    /\ UNCHANGED <<selectedSeries, selectedTags, maxResults, search>>
    /\ ControlsUntouched

\* onChange={(e) => setMaxResults(Number(e.target.value))}
SetMaxResults(v) ==
    /\ Rendered
    /\ maxResults' = v
    /\ UNCHANGED <<selectedSeries, selectedTags, last30Only, search>>
    /\ ControlsUntouched

\* The Reset button
Reset ==
    /\ Rendered
    /\ selectedSeries' = <<>> /\ selectedTags' = <<>>
    /\ search' = "" /\ last30Only' = FALSE
    /\ phase' = [w \in Widgets |-> "none"]
    /\ seed' = [w \in Widgets |-> <<>>]
    /\ flips' = [w \in Widgets |-> {}]
    /\ UNCHANGED <<maxResults, cleared>>
    /\ UNCHANGED <<rows, loading, error, allSeries, allTags, cutoff, loadVars,
                   widgetVars, normVars>>

\* What the fetch can deliver to the page whose filters are followed: the
\* sample CSV, the mixed CSV, or a failure.
ViewResponses ==
    {OkResponse(SampleData), OkResponse(MixedData), HttpError, NetworkError}

\* What the fetch can deliver to the page whose cap is followed: the long
\* CSV or a failure.
CapResponses == {OkResponse(LongData), HttpError, NetworkError}

ControlsNext ==
    \/ \E v \in Selections(allSeries) : SetSelectedSeries(v)
    \/ \E v \in Selections(allTags) : SetSelectedTags(v)
    \/ \E v \in SearchTexts : SetSearch(v)
    \/ SetLast30Only
    \/ \E v \in MaxResultsOptions : SetMaxResults(v)
    \/ Reset

InitView ==
    \/ InitPage({OkResponse(MixedData)}, LoadInstants)
    \/ InitPage(ViewResponses \ {OkResponse(MixedData)}, {24 * 20335})

ViewNext == LoadNext \/ ControlsNext

SpecView == InitView /\ [][ViewNext]_vars

InitCap == InitPage(CapResponses, {24 * 20335})

SpecCap == InitCap /\ [][ViewNext]_vars

----------------------------------------------------------------------------
(* MultiSelect *)

\* The props of the two instances: options, selected
options(w) == IF w = "series" THEN allSeries ELSE allTags
selected(w) == IF w = "series" THEN selectedSeries ELSE selectedTags

\* onChange(v): setSelectedSeries or setSelectedTags of the page
onChange(w, v) ==
    IF w = "series"
    THEN selectedSeries' = v /\ UNCHANGED selectedTags
    ELSE selectedTags' = v /\ UNCHANGED selectedSeries

\* The option list as filtered by the query
\* q ? options.filter((o) => o.toLowerCase().includes(q)) : options
filteredOptions(w) ==
    LET q == toLowerCase(trim(query[w]))
    IN  IF q # "" THEN SelectSeq(options(w), LAMBDA o : includes(toLowerCase(o), q))
        ELSE options(w)

\* toggle's new array: Array.from(set) after set.delete(item) or
\* set.add(item) on new Set(tempSelected)
toggled(a, item) ==
    LET d == dedupe(a)
    IN  IF item \in Range(d) THEN SelectSeq(d, LAMBDA x : x # item)
        ELSE Append(d, item)

SymDiff(A, B) == (A \ B) \cup (B \ A)

PageUntouched ==
    UNCHANGED <<rows, loading, error, last30Only, maxResults, search, allSeries,
                allTags, cutoff, loadVars, normVars>>

\* The history of widget w forgotten
Forget(w) ==
    /\ phase' = [phase EXCEPT ![w] = "none"]
    /\ seed' = [seed EXCEPT ![w] = <<>>]
    /\ flips' = [flips EXCEPT ![w] = {}]

\* The history kept through a step that closes the widgets in `closing`
\* without committing: an edit in progress becomes a dismissed one.
Dismissed(closing) ==
    /\ phase' = [w \in Widgets |->
                    IF w \in closing /\ open[w] /\ phase[w] = "editing"
                    THEN "dismissed" ELSE phase[w]]
    /\ UNCHANGED <<seed, flips, cleared>>

\* openMenu: seed the provisional selection from the committed one
openMenu(w) ==
    /\ tempSelected' = [tempSelected EXCEPT ![w] = selected(w)]
    /\ open' = [open EXCEPT ![w] = TRUE]

\* The trigger button: open ? setOpen(false) : openMenu()
TriggerClick(w) ==
    /\ Rendered
    /\ IF open[w]
       THEN /\ open' = [open EXCEPT ![w] = FALSE]
            /\ UNCHANGED tempSelected
            /\ Dismissed({w})
       ELSE /\ openMenu(w)
            /\ phase' = [phase EXCEPT ![w] = "editing"]
            /\ seed' = [seed EXCEPT ![w] = selected(w)]
            /\ flips' = [flips EXCEPT ![w] = {}]
            /\ UNCHANGED cleared
    /\ UNCHANGED <<query, selectedSeries, selectedTags>>
    /\ PageUntouched

\* The filter input of the open menu: setQuery(e.target.value)
SetQuery(w, v) ==
    /\ Rendered /\ open[w]
    /\ query' = [query EXCEPT ![w] = v]
    /\ UNCHANGED <<open, tempSelected, selectedSeries, selectedTags, historyVars>>
    /\ PageUntouched

\* toggle(item), were it to hand the new array to the owner as well
ToggleCommitting(w, item) ==
    /\ Rendered /\ open[w]
    /\ item \in Range(filteredOptions(w))
    /\ tempSelected' = [tempSelected EXCEPT ![w] = toggled(tempSelected[w], item)]
    /\ onChange(w, toggled(tempSelected[w], item))
    /\ flips' = [flips EXCEPT ![w] = SymDiff(flips[w], {item})]
    /\ UNCHANGED <<open, query, phase, seed, cleared>>
    /\ PageUntouched

\* A checkbox of the open menu: toggle(item)
Toggle(w, item) ==
    /\ Rendered /\ open[w]
    /\ item \in Range(filteredOptions(w))
    /\ tempSelected' = [tempSelected EXCEPT ![w] = toggled(tempSelected[w], item)]
    /\ flips' = [flips EXCEPT ![w] = SymDiff(flips[w], {item})]
    /\ UNCHANGED <<open, query, selectedSeries, selectedTags, phase, seed, cleared>>
    /\ PageUntouched

\* applyChanges(closeAfter), the owner not told
applyChangesLocal(w, closeAfter) ==
    /\ UNCHANGED <<selectedSeries, selectedTags>>
    /\ IF closeAfter THEN open' = [open EXCEPT ![w] = FALSE] ELSE UNCHANGED open
    /\ UNCHANGED <<query, tempSelected>>

\* applyChanges(closeAfter)
applyChanges(w, closeAfter) ==
    /\ onChange(w, tempSelected[w])
    /\ IF closeAfter THEN open' = [open EXCEPT ![w] = FALSE] ELSE UNCHANGED open
    /\ UNCHANGED <<query, tempSelected>>

\* clearAll(closeAfter), the owner not told
clearAllLocal(w, closeAfter) ==
    /\ tempSelected' = [tempSelected EXCEPT ![w] = <<>>]
    /\ UNCHANGED <<selectedSeries, selectedTags>>
    /\ IF closeAfter THEN open' = [open EXCEPT ![w] = FALSE] ELSE UNCHANGED open
    /\ UNCHANGED query

\* clearAll(closeAfter)
clearAll(w, closeAfter) ==
    /\ tempSelected' = [tempSelected EXCEPT ![w] = <<>>]
    /\ onChange(w, <<>>)
    /\ IF closeAfter THEN open' = [open EXCEPT ![w] = FALSE] ELSE UNCHANGED open
    /\ UNCHANGED query

\* The Clear button: clearAll(false)
Clear(w) ==
    /\ Rendered /\ open[w]
    /\ clearAll(w, FALSE)
    /\ Forget(w)
    /\ cleared' = [cleared EXCEPT ![w] =
                        IF selected(w) = <<>> THEN "from_empty" ELSE "from_selection"]
    /\ PageUntouched

\* The Apply button: applyChanges(false)
Apply(w) ==
    /\ Rendered /\ open[w]
    /\ applyChanges(w, FALSE)
    /\ Forget(w)
    /\ cleared' = [cleared EXCEPT ![w] = NotCleared]
    /\ PageUntouched

\* The Done button: applyChanges(true)
Done(w) ==
    /\ Rendered /\ open[w]
    /\ applyChanges(w, TRUE)
    /\ Forget(w)
    /\ cleared' = [cleared EXCEPT ![w] = NotCleared]
    /\ PageUntouched

\* The places of the document a mousedown can land on: inside the root of
\* one of the widgets, or elsewhere on the page
Targets == Widgets \cup {"page"}

\* onDocClick: !rootRef.current.contains(e.target)
outside(w, target) == target # w

\* A mousedown on the document: the onDocClick listener of every instance
\* runs, and closes the instance the target is outside of.
MouseDown(target) ==
    /\ Rendered
    /\ open' = [w \in Widgets |-> IF outside(w, target) THEN FALSE ELSE open[w]]
    /\ Dismissed({w \in Widgets : outside(w, target)})
    /\ UNCHANGED <<query, tempSelected, selectedSeries, selectedTags>>
    /\ PageUntouched

\* A keydown of Escape on the document: the onKey listener of every
\* instance runs.
Escape ==
    /\ Rendered
    /\ open' = [w \in Widgets |-> FALSE]
    /\ Dismissed(Widgets)
    /\ UNCHANGED <<query, tempSelected, selectedSeries, selectedTags>>
    /\ PageUntouched

\* The texts typed into the filter input of a menu
QueryTexts == {"", " AR "}

WidgetNext ==
    \/ \E w \in Widgets : TriggerClick(w)
    \/ \E w \in Widgets, v \in QueryTexts : SetQuery(w, v)
    \/ \E w \in Widgets : \E item \in Range(options(w)) : Toggle(w, item)
    \/ \E w \in Widgets : Clear(w)
    \/ \E w \in Widgets : Apply(w)
    \/ \E w \in Widgets : Done(w)
    \/ \E target \in Targets : MouseDown(target)
    \/ Escape

\* A CSV with one series and two tags
WidgetData == <<RecVoltsTwin, RecVolts>>

InitWidget ==
    InitPage({OkResponse(WidgetData), HttpError, NetworkError}, {24 * 20335})

SpecWidget == InitWidget /\ [][LoadNext \/ WidgetNext \/ Reset]_vars

----------------------------------------------------------------------------
(* The normaliser on its own: one parsed record in, one row out *)

\* The longest score text drawn, in characters
MaxScoreLen == 3

\* The characters score texts are made of
ScoreChars == {"0", "1", "5", ".", "-", "a", " "}

RECURSIVE TextsUpTo(_, _)
TextsUpTo(C, n) ==
    IF n = 0 THEN {""}
    ELSE LET shorter == TextsUpTo(C, n - 1)
         IN  shorter \cup {t \o c : t \in shorter, c \in C}

ScoreTexts ==
    TextsUpTo(ScoreChars, MaxScoreLen)
        \cup {"6", "abc", "4.6", "4.4", "4.49", "4.50", "0.99", "5.01", "1.49",
              "Infinity", "-Infinity", "+5", " 2.5 "}

\* The records a score text t arrives in: under the canonical headers, under
\* the aliases, behind an empty canonical cell, or with no score column.
ScoreRecords(t) ==
    LET base == [series_name |-> "Volts", episode_title |-> "Grid basics"]
    IN  { base @@ [score_general |-> t, score_advanced |-> t],
          base @@ [general |-> t, advanced_score |-> t],
          base @@ [general_score |-> t, advanced |-> t],
          base @@ [score_general |-> "", general |-> t, advanced |-> t],
          base }

NormInputs == UNION {ScoreRecords(t) : t \in ScoreTexts}

Normalize ==
    /\ output = <<>>
    /\ output' = <<normalizeRow(input)>>
    /\ UNCHANGED <<pageVars, loadVars, widgetVars, historyVars, input>>

InitNorm ==
    /\ InitRest({NetworkError}, {24 * 20335})
    /\ input \in NormInputs
    /\ output = <<>>

SpecNorm == InitNorm /\ [][Normalize]_vars

----------------------------------------------------------------------------
(* Properties of the normaliser *)

ScoreGenKeys == <<"score_general", "general", "general_score">>
ScoreAdvKeys == <<"score_advanced", "advanced", "advanced_score">>

\* Whether record r carries a raw score under one of `keys`, and the raw
\* score it carries: the cell under the first of `keys` that r has
HasRaw(r, keys) == \E i \in 1..Len(keys) : keys[i] \in DOMAIN r

Raw(r, keys) ==
    LET first == CHOOSE i \in 1..Len(keys) :
                    /\ keys[i] \in DOMAIN r
                    /\ \A j \in 1..(i - 1) : keys[j] \notin DOMAIN r
    IN  r[keys[first]]

\* The number x lies in [1, 5]
InScoreRange(x) == ~x.nan /\ ~x.inf /\ x.den <= x.num /\ x.num <= 5 * x.den

Abs(n) == IF n < 0 THEN 0 - n ELSE n

\* The integer v is a nearest integer to the number x
IsNearest(v, x) == 2 * Abs(x.num - v * x.den) <= x.den

\* What is asked of the score s normalised from record r's cell under `keys`
ScoreAsSpecified(r, keys, s) ==
    /\ s.isNull \/ s.value \in 1..5
    /\ ~HasRaw(r, keys) => s.isNull
    /\ HasRaw(r, keys) =>
          \A x \in {StringToNumber(Raw(r, keys))} :
              /\ ~InScoreRange(x) => s.isNull
              /\ InScoreRange(x) => ~s.isNull /\ IsNearest(s.value, x)
    /\ (HasRaw(r, keys) /\ Raw(r, keys) \in {"0", "6", "abc"}) => s.isNull
    /\ (HasRaw(r, keys) /\ Raw(r, keys) = "4.6") => ~s.isNull /\ s.value = 5

\* The fields of a normalised row
RowFields ==
    {"series", "title", "dateRaw", "dateObj", "tags", "scoreGen", "scoreAdv",
     "summary", "summaryGeneral", "summaryAdvanced", "url"}

\* C7: for every input record normalizeRow yields a row, and each of
\* scoreGen and scoreAdv of that row is null or an integer in 1..5: null
\* when the raw value is missing, is not a number or is a number outside
\* [1, 5] (0, 6 and "abc" among them), and a nearest integer to the raw
\* value when it lies in [1, 5] (5 for 4.6).
C7_ScoresNullOrOneToFive ==
    /\ DOMAIN normalizeRow(input) = RowFields
    /\ output # <<>> =>
          /\ Len(output) = 1
          /\ ScoreAsSpecified(input, ScoreGenKeys, output[1].scoreGen)
          /\ ScoreAsSpecified(input, ScoreAdvKeys, output[1].scoreAdv)

\* A record whose general score arrives as 4.6 under an alias and is
\* normalised to 5, its advanced score being normalised likewise
C7_Witness ==
    /\ output # <<>>
    /\ "general" \in DOMAIN input /\ "score_general" \notin DOMAIN input
    /\ input.general = "4.6"
    /\ output[1].scoreGen = [isNull |-> FALSE, value |-> 5]
    /\ output[1].scoreAdv = [isNull |-> FALSE, value |-> 5]

----------------------------------------------------------------------------
(* Properties of the load effect *)

\* The rows of the sample dataset
SampleRows == normalized(SampleData)

SampleFallbackNotice == "Using built-in sample data (episodes.csv not found)."

\* C3: once the fetch of /episodes.csv has failed (no response, a status
\* other than 2xx, or a body that cannot be read) on a page still mounted,
\* loading is false, the rows are the normalised rows of the sample
\* dataset and the warning text is set.
C3_FailedFetchFallsBackToSample ==
    (pc = "rejected" /\ ~cancelled) =>
        /\ loading = FALSE
        /\ rows = SampleRows
        /\ error = SampleFallbackNotice

\* C6: once the page has unmounted no step changes rows, loading or error,
\* whether the fetch succeeds or fails afterwards.
C6_NoUpdateAfterUnmount ==
    [][cancelled => (rows' = rows /\ loading' = loading /\ error' = error)]_vars

\* The page unmounted while the fetch was pending, the fetch then
\* delivered a CSV with rows to keep, and the page still shows none
C6_Witness ==
    /\ cancelled /\ pc = "loaded"
    /\ response.kind = "ok" /\ Len(normalized(response.data)) > 0
    /\ loading /\ rows = <<>> /\ error = ""

\* The row has an identifying field that is non-empty after trimming
HasIdentity(r) == trim(r.series) # "" \/ trim(r.title) # "" \/ trim(r.url) # ""

\* The k-th smallest element of the set of integers S
KthOf(S, k) == CHOOSE i \in S : Cardinality({j \in S : j <= i}) = k

\* C8: every record of the row list, and so of the filtered and displayed
\* lists, has a non-empty series, title or url; and once a CSV is loaded
\* the row list holds, in input order and once each, exactly the
\* normalised input rows that have one.
C8_OnlyIdentifiedRowsKept ==
    /\ \A i \in 1..Len(rows) : HasIdentity(rows[i])
    /\ \A r \in Range(filtered) \cup Range(limited) : HasIdentity(r)
    /\ (pc = "loaded" /\ ~cancelled) =>
          \A n \in {MapNormalize(response.data)} :
              \A kept \in {{i \in 1..Len(n) : HasIdentity(n[i])}} :
                  /\ Len(rows) = Cardinality(kept)
                  /\ \A k \in 1..Len(rows) : rows[k] = n[KthOf(kept, k)]

\* A CSV of a row with no identifying field followed by a row identified
\* by its link alone has been loaded: only the second is kept
C8_Witness ==
    /\ pc = "loaded" /\ ~cancelled
    /\ Len(response.data) = 2 /\ Len(rows) = 1
    /\ ~HasIdentity(normalizeRow(response.data[1]))
    /\ rows[1] = normalizeRow(response.data[2])
    /\ rows[1].series = "" /\ rows[1].title = "" /\ rows[1].url # ""

----------------------------------------------------------------------------
(* Properties of the derived views *)

NoFilter ==
    selectedSeries = <<>> /\ selectedTags = <<>> /\ ~last30Only /\ trim(search) = ""

\* Row a may stand before row b when undated rows count as the earliest
\* date of all: by date descending, then series ascending, then title
\* ascending.
MayPrecede(a, b) ==
    IF a.dateObj.isNull # b.dateObj.isNull THEN b.dateObj.isNull
    ELSE IF ~a.dateObj.isNull /\ a.dateObj.time # b.dateObj.time
         THEN a.dateObj.time > b.dateObj.time
    ELSE IF localeCompare(a.series, b.series) # 0
         THEN localeCompare(a.series, b.series) < 0
    ELSE localeCompare(a.title, b.title) <= 0

\* Rows a and b agree on date, series and title
SameKeys(a, b) ==
    /\ a.dateObj = b.dateObj
    /\ localeCompare(a.series, b.series) = 0
    /\ localeCompare(a.title, b.title) = 0

\* Where in `rows` the row r stands first
PlaceInRows(r) == CHOOSE k \in 1..Len(rows) : rows[k] = r /\ \A j \in 1..(k - 1) : rows[j] # r

\* C4: the filtered list is ordered by date descending with every undated
\* row after every dated row, whatever its date; then by series ascending;
\* then by title ascending; rows equal on the three keys keep their input
\* order.  The sample dataset unfiltered comes out as Volts, Climate One,
\* Drilled, Cleaning Up.
C4_UndatedRowsSortAfterAllDated ==
    \A f \in {filtered} :
        /\ \A i \in 1..Len(f) : \A j \in (i + 1)..Len(f) :
              /\ MayPrecede(f[i], f[j])
              /\ SameKeys(f[i], f[j]) => PlaceInRows(f[i]) <= PlaceInRows(f[j])
        /\ (rows = SampleRows /\ NoFilter) =>
              [i \in 1..Len(f) |-> f[i].series]
                  = <<"Volts", "Climate One", "Drilled", "Cleaning Up">>

PassesSeries(r) ==
    selectedSeries = <<>> \/ \E k \in 1..Len(selectedSeries) : selectedSeries[k] = r.series

PassesTags(r) ==
    selectedTags = <<>> \/ Range(r.tags) \cap Range(selectedTags) # {}

PassesRecent(r) ==
    last30Only => (~r.dateObj.isNull /\ r.dateObj.time >= cutoff)

\* The search text as it is matched: trimmed and in lower case
Query == toLowerCase(trim(search))

PassesQuery(r, q) ==
    q # "" =>
        \E field \in {r.title, r.series, join(r.tags), r.summary} :
            includes(toLowerCase(field), q)

PassesSearch(r) == PassesQuery(r, Query)

PassesAll(r) == PassesSeries(r) /\ PassesTags(r) /\ PassesRecent(r) /\ PassesSearch(r)

\* The places in `rows` of the rows that pass the four predicates
PassingPlaces ==
    {p \in {Query} \X (1..Len(rows)) :
        /\ PassesSeries(rows[p[2]]) /\ PassesTags(rows[p[2]])
        /\ PassesRecent(rows[p[2]]) /\ PassesQuery(rows[p[2]], p[1])}

\* One of the four filters, by number
filterStep(k, out) ==
    CASE k = 1 -> filterSeries(out)
      [] k = 2 -> filterTags(out)
      [] k = 3 -> filterRecent(out)
      [] k = 4 -> filterSearch(out)

FilterOrders == {o \in [1..4 -> 1..4] : \A i, j \in 1..4 : o[i] = o[j] => i = j}

\* C5: a row is in the filtered list exactly when it passes the series,
\* tag, recency and search predicates, as many times as it is in the row
\* list; the rows left do not depend on the order the four filters are
\* applied in.  On the sample dataset the tag selection [grid] leaves the
\* "Grid nerd out: HVDC" row alone and the search for insurance leaves the
\* Climate One row alone.
C5_FilteredIffAllPredicatesPass ==
    \A f \in {filtered} : \A passing \in {{p[2] : p \in PassingPlaces}} :
        /\ \A i \in 1..Len(rows) :
              i \in passing <=> \E k \in 1..Len(f) : f[k] = rows[i]
        /\ \A k \in 1..Len(f) : \E i \in 1..Len(rows) : rows[i] = f[k]
        /\ Len(f) = Cardinality(passing)
        /\ \A chain \in {filterChain} : \A o \in FilterOrders :
              filterStep(o[4], filterStep(o[3], filterStep(o[2], filterStep(o[1], rows))))
                  = chain
        /\ (rows = SampleRows /\ selectedSeries = <<>>
                /\ selectedTags = <<"grid">> /\ ~last30Only /\ trim(search) = "") =>
              Len(f) = 1 /\ f[1].title = "Grid nerd out: HVDC"
        /\ (rows = SampleRows /\ selectedSeries = <<>>
                /\ selectedTags = <<>> /\ ~last30Only
                /\ toLowerCase(trim(search)) = "insurance") =>
              Len(f) = 1 /\ f[1].series = "Climate One"

\* All four filters are in force on the mixed CSV: some rows pass them
\* all, a row fails each one of them alone, and a row with two tags passes
\* on one of them
C5_Witness ==
    /\ Rendered /\ Len(rows) > 4
    /\ selectedSeries # <<>> /\ selectedTags # <<>> /\ last30Only /\ trim(search) # ""
    /\ \E i \in 1..Len(rows) : PassesAll(rows[i])
    /\ \E i \in 1..Len(rows) : ~PassesSeries(rows[i])
    /\ \E i \in 1..Len(rows) : ~PassesTags(rows[i])
    /\ \E i \in 1..Len(rows) : ~PassesRecent(rows[i])
    /\ \E i \in 1..Len(rows) : ~PassesSearch(rows[i])
    /\ \E i \in 1..Len(rows) :
          /\ PassesAll(rows[i])
          /\ Range(rows[i].tags) \ Range(selectedTags) # {}

\* The displayed list is what the cap asks for of the filtered list
CapApplied ==
    \A f \in {filtered} : \A l \in {limited} :
        /\ maxResults \in MaxResultsOptions
        /\ maxResults \in {100, 200, 500} =>
              /\ Len(l) = Min(maxResults, Len(f))
              /\ \A i \in 1..Len(l) : l[i] = f[i]
        /\ maxResults = -1 => l = f
        /\ Len(l) <= Len(f) /\ Len(f) <= Len(rows)

\* C9: under a cap of 100, 200 or 500 the displayed list is the first
\* min(cap, |filtered|) elements of the filtered and sorted list, in its
\* order; under All it is the whole of it; a change of the cap leaves the
\* filtered list as it was; and |limited| <= |filtered| <= |rows|.
C9_CapAppliedAfterFilterAndSort ==
    /\ []CapApplied
    /\ [][maxResults' # maxResults =>
              \A out \in {filterChain'} : sortRows(out) = filtered]_vars

\* The cap of 100 cuts a filtered list of more than 100 rows
C9_Witness ==
    /\ Rendered /\ maxResults = 100
    /\ Len(filtered) > 100 /\ Len(limited) = 100
    /\ limited = SubSeq(filtered, 1, 100)

----------------------------------------------------------------------------
(* Properties of the MultiSelect *)

\* The step is an event of widget w other than Clear, Apply and Done
OtherWidgetEvent(w) ==
    \/ TriggerClick(w)
    \/ \E v \in QueryTexts : SetQuery(w, v)
    \/ \E item \in Range(options(w)) : Toggle(w, item)
    \/ \E target \in Targets : MouseDown(target)
    \/ Escape

\* C1: the committed selection of a MultiSelect changes only in a step
\* that is its Clear, Apply or Done (or the page's own Reset, which is no
\* event of the widget); opening, closing, typing in the option filter,
\* toggling an option, a mousedown outside and Escape leave it as it was.
C1_CommittedChangesOnlyOnClearApplyDone ==
    [][\A w \in Widgets :
          /\ selected(w)' # selected(w) => (Clear(w) \/ Apply(w) \/ Done(w) \/ Reset)
          /\ OtherWidgetEvent(w) => selected(w)' = selected(w)]_vars

\* A menu is open with options toggled and nothing committed: the
\* provisional selection differs from the committed one
C1_Witness ==
    \E w \in Widgets :
        /\ open[w] /\ phase[w] = "editing"
        /\ Cardinality(flips[w]) = 2
        /\ selected(w) = <<>>
        /\ Range(tempSelected[w]) = flips[w]

\* No element of the array is repeated
NoRepeats(a) == \A i, j \in 1..Len(a) : a[i] = a[j] => i = j

\* The options of the selection s with the membership of each option of
\* `toggledOdd` flipped
Flipped(s, toggledOdd) == (Range(s) \ toggledOdd) \cup (toggledOdd \ Range(s))

\* While a menu is being edited the committed selection is the one it was
\* opened on and the provisional one is that with the toggled options
\* flipped; after a dismissal the menu is closed on the selection it was
\* opened on.
EditKept ==
    \A w \in Widgets :
        /\ phase[w] = "editing" =>
              /\ open[w]
              /\ selected(w) = seed[w]
              /\ Range(tempSelected[w]) = Flipped(seed[w], flips[w])
              /\ NoRepeats(tempSelected[w])
        /\ phase[w] = "dismissed" => ~open[w] /\ selected(w) = seed[w]

\* Opening seeds the provisional selection; a dismissal of an edited menu
\* closes it and commits nothing; Done on an edited menu closes it and
\* commits the flipped selection.
EditStep ==
    \A w \in Widgets :
        /\ (~open[w] /\ open'[w]) =>
              /\ tempSelected'[w] = selected(w)
              /\ phase[w] = "dismissed" => tempSelected'[w] = seed[w]
        /\ (phase[w] = "editing" /\ (Escape \/ \E target \in Targets \ {w} : MouseDown(target))) =>
              /\ ~open'[w]
              /\ selected(w)' = seed[w]
              /\ phase'[w] = "dismissed"
        /\ (phase[w] = "editing" /\ Done(w)) =>
              /\ ~open'[w]
              /\ selected(w)' = tempSelected[w]
              /\ Range(selected(w)') = Flipped(seed[w], flips[w])
              /\ NoRepeats(selected(w)')

\* C2: a MultiSelect opened on the committed selection S starts with the
\* provisional selection S; after any toggles, a mousedown outside or
\* Escape leaves it closed with S still committed, and the next opening
\* starts from S again; Done instead leaves it closed with S committed
\* but for the options toggled an odd number of times, whose membership
\* is flipped (two toggled options that were not in S are the ones added).
C2_DismissDiscardsDoneCommits ==
    /\ []EditKept
    /\ [][EditStep]_vars

\* Opened on the empty selection, two options toggled, then dismissed:
\* closed, nothing committed, the two options still in the provisional copy
C2_Witness ==
    \E w \in Widgets :
        /\ phase[w] = "dismissed" /\ ~open[w]
        /\ seed[w] = <<>> /\ selected(w) = <<>>
        /\ Cardinality(flips[w]) = 2
        /\ Range(tempSelected[w]) = flips[w]

\* From a Clear to the next Apply or Done the committed selection is empty
ClearedKept ==
    \A w \in Widgets : cleared[w] # NotCleared => selected(w) = <<>>

\* Clear empties both copies and leaves the menu open; from then on only
\* Apply and Done commit
ClearStep ==
    \A w \in Widgets :
        /\ Clear(w) => (tempSelected'[w] = <<>> /\ selected(w)' = <<>> /\ open'[w])
        /\ (cleared[w] # NotCleared /\ selected(w)' # <<>>) => (Apply(w) \/ Done(w))

\* C10: Clear in an open MultiSelect empties the provisional selection,
\* commits the empty selection at once and leaves the menu open; a later
\* mousedown outside or Escape does not bring back the selection committed
\* before Clear, and options toggled after Clear stay uncommitted until an
\* Apply or Done.
C10_ClearCommitsEmptyAtOnce ==
    /\ []ClearedKept
    /\ [][ClearStep]_vars

\* A selection was committed, Clear was pressed, an option was toggled and
\* the menu dismissed: nothing is committed, the toggled option is in the
\* provisional copy only
C10_Witness ==
    \E w \in Widgets :
        /\ cleared[w] = "from_selection" /\ ~open[w]
        /\ selected(w) = <<>> /\ tempSelected[w] # <<>>

====
